---- MODULE Spec2Model ----
(***************************************************************************)
(* State-machine model of the WordScraper plugin (src/main.ts, the final   *)
(* revision of the class, lines 401-709).                                  *)
(*                                                                         *)
(* Text (document contents, paths, the excludedFolders setting) is a       *)
(* sequence of one-character strings.  Words, i.e. the property names of   *)
(* the frequency objects, are TLA+ strings.  JavaScript objects are        *)
(* functions from property names to values; JavaScript values are tagged   *)
(* records so that numbers, strings, NaN and inherited functions can be    *)
(* told apart, as the arithmetic of handleChange does.                     *)
(***************************************************************************)
EXTENDS Integers, Sequences, FiniteSets, TLC

(***************************************************************************)
(* Bounds of the model.                                                    *)
(***************************************************************************)
MaxWords == 1      \* lexemes in one document content
MaxCount == 1      \* largest numeric count kept in the aggregate
MaxAppends == 1    \* times "NaN" may be appended to a non-numeric count
MaxFlushes == 1    \* debounce timers that may be outstanding at once
MaxHostEvents == 1 \* settings changes, commands, unloads, failed calls and saves, clock ticks
MaxHandlers == 1   \* plugin objects that may have their handlers registered at once

TicksPerDay == 2   \* clock ticks in one UTC day

(***************************************************************************)
(* JavaScript values.                                                      *)
(***************************************************************************)
Num(n) == [num |-> n]
Str(s) == [str |-> s]
NaN == [nan |-> TRUE]
Undefined == [undefined |-> TRUE]
Null == [null |-> TRUE]
Fn(name) == [fn |-> name]

IsNum(v) == DOMAIN v = {"num"}
IsStr(v) == DOMAIN v = {"str"}
IsFn(v) == DOMAIN v = {"fn"}
IsObj(v) == DOMAIN v = {"object"}

EmptyObj == [k \in {} |-> Undefined]

\* The methods every object literal inherits from Object.prototype
ObjectPrototypeMethods ==
    {"toString", "toLocaleString", "valueOf", "hasOwnProperty", "isPrototypeOf",
     "propertyIsEnumerable", "__defineGetter__", "__defineSetter__",
     "__lookupGetter__", "__lookupSetter__"}

\* Properties every object literal inherits from Object.prototype, with the
\* value a read of that property yields: the constructor Object, the
\* methods, and the accessor __proto__, whose getter returns the prototype.
ObjectPrototype ==
    [k \in {"constructor", "__proto__"} \cup ObjectPrototypeMethods |->
        IF k = "constructor" THEN Fn("Object")
        ELSE IF k = "__proto__" THEN [object |-> "Object.prototype"]
        ELSE Fn(k)]

\* Function.prototype.toString of a native function.
FnSource(name) == "function " \o name \o "() { [native code] }"

Digits == <<"0", "1", "2", "3", "4", "5", "6", "7", "8", "9">>

RECURSIVE NatToString(_)
NatToString(n) ==
    IF n < 10 THEN Digits[n + 1]
    ELSE NatToString(n \div 10) \o Digits[(n % 10) + 1]

\* ToString of a primitive, of a function or of a plain object
JsToString(v) ==
    IF IsNum(v) THEN (IF v.num < 0 THEN "-" \o NatToString(-v.num) ELSE NatToString(v.num))
    ELSE IF IsStr(v) THEN v.str
    ELSE IF IsFn(v) THEN FnSource(v.fn)
    ELSE IF IsObj(v) THEN "[object Object]"
    ELSE IF v = NaN THEN "NaN"
    ELSE IF v = Null THEN "null"
    ELSE "undefined"

\* ToNumber.  The only strings that arise are function sources followed by
\* digits or "NaN", none of which is a numeric literal.
ToNumber(v) ==
    IF IsNum(v) THEN v
    ELSE IF v = Null THEN Num(0)
    ELSE IF IsStr(v) /\ v.str = "" THEN Num(0)
    ELSE NaN

\* ToBoolean
Truthy(v) ==
    IF IsNum(v) THEN v.num # 0
    ELSE IF IsStr(v) THEN v.str # ""
    ELSE IsFn(v) \/ IsObj(v)

\* a || b
Or(a, b) == IF Truthy(a) THEN a ELSE b

\* a + b: string concatenation as soon as one operand is (or converts to) a string
Plus(a, b) ==
    IF IsStr(a) \/ IsStr(b) \/ IsFn(a) \/ IsFn(b) \/ IsObj(a) \/ IsObj(b)
    THEN Str(JsToString(a) \o JsToString(b))
    ELSE IF IsNum(ToNumber(a)) /\ IsNum(ToNumber(b))
         THEN Num(ToNumber(a).num + ToNumber(b).num)
         ELSE NaN

\* a - b
Minus(a, b) ==
    IF IsNum(ToNumber(a)) /\ IsNum(ToNumber(b))
    THEN Num(ToNumber(a).num - ToNumber(b).num)
    ELSE NaN

\* a <= 0
LeqZero(v) == IsNum(ToNumber(v)) /\ ToNumber(v).num <= 0

\* obj[key]: own property, else inherited from Object.prototype, else undefined
Get(obj, key) ==
    IF key \in DOMAIN obj THEN obj[key]
    ELSE IF key \in DOMAIN ObjectPrototype THEN ObjectPrototype[key]
    ELSE Undefined

\* obj[key] = v.  An assignment to __proto__ is taken by the setter of
\* Object.prototype, which ignores a value that is neither an object nor
\* null (the values assigned here are numbers, strings and NaN): no own
\* property is made.
Put(obj, key, v) ==
    IF key = "__proto__" /\ ~IsObj(v) /\ v # Null THEN obj
    ELSE [k \in DOMAIN obj \cup {key} |-> IF k = key THEN v ELSE obj[k]]

\* delete obj[key]
Delete(obj, key) == [k \in DOMAIN obj \ {key} |-> obj[k]]

\* Object.assign({}, a, b)
Assign(a, b) == [k \in DOMAIN a \cup DOMAIN b |-> IF k \in DOMAIN b THEN b[k] ELSE a[k]]

(***************************************************************************)
(* Text.                                                                   *)
(***************************************************************************)
LowerCase == {"a", "b", "c", "d", "e", "f", "g", "h", "i", "j", "k", "l", "m",
              "n", "o", "p", "q", "r", "s", "t", "u", "v", "w", "x", "y", "z"}
UpperCase == {"A", "B", "C", "D", "E", "F", "G", "H", "I", "J", "K", "L", "M",
              "N", "O", "P", "Q", "R", "S", "T", "U", "V", "W", "X", "Y", "Z"}
DigitChars == {"0", "1", "2", "3", "4", "5", "6", "7", "8", "9"}

\* the class \w
WordChar(c) == c \in LowerCase \cup UpperCase \cup DigitChars \cup {"_"}

\* text.match(/\b\w+\b/g) || []: the maximal runs of word characters, in
\* order.  run is the run being read.
RECURSIVE MatchRuns(_, _)
MatchRuns(text, run) ==
    IF text = <<>> THEN (IF run = "" THEN <<>> ELSE <<run>>)
    ELSE IF WordChar(Head(text)) THEN MatchRuns(Tail(text), run \o Head(text))
    ELSE (IF run = "" THEN <<>> ELSE <<run>>) \o MatchRuns(Tail(text), "")

MatchWords(text) == MatchRuns(text, "")

\* words.forEach(word => freq[word] = (freq[word] || 0) + 1)
RECURSIVE CountInto(_, _)
CountInto(words, freq) ==
    IF words = <<>> THEN freq
    ELSE CountInto(Tail(words),
                   Put(freq, Head(words), Plus(Or(Get(freq, Head(words)), Num(0)), Num(1))))

WordFrequencyOf(text) == CountInto(MatchWords(text), EmptyObj)

\* One pass of the loop over the union of the keys of both frequency maps
\* (the body of the for statement): the aggregate after handling word.
UpdateWord(wf, word, oldFreq, newFreq) ==
    LET oldCount == Or(Get(oldFreq, word), Num(0))
        newCount == Or(Get(newFreq, word), Num(0))
        delta == Minus(newCount, oldCount)
        assigned == IF Truthy(Get(wf, word)) THEN Plus(Get(wf, word), delta) ELSE delta
    IN  IF LeqZero(assigned) THEN Delete(wf, word) ELSE Put(wf, word, assigned)

\* The for loop: every word of either map is handled once.  The passes touch
\* different keys, so their order does not matter.
RECURSIVE UpdateWords(_, _, _, _)
UpdateWords(wf, words, oldFreq, newFreq) ==
    IF words = {} THEN wf
    ELSE LET word == CHOOSE w \in words : TRUE
         IN  UpdateWords(UpdateWord(wf, word, oldFreq, newFreq), words \ {word},
                         oldFreq, newFreq)

\* The aggregate after a change of the tracked document from oldText to newText.
UpdateGlobalFrequency(wf, oldText, newText) ==
    LET oldFreq == WordFrequencyOf(oldText)
        newFreq == WordFrequencyOf(newText)
    IN  UpdateWords(wf, DOMAIN oldFreq \cup DOMAIN newFreq, oldFreq, newFreq)

\* text.split(sep): the pieces between the separators.  piece is the piece
\* being read.
RECURSIVE SplitRuns(_, _, _)
SplitRuns(text, sep, piece) ==
    IF text = <<>> THEN <<piece>>
    ELSE IF Head(text) = sep THEN <<piece>> \o SplitRuns(Tail(text), sep, <<>>)
    ELSE SplitRuns(Tail(text), sep, Append(piece, Head(text)))

Split(text, sep) == SplitRuns(text, sep, <<>>)

\* s.startsWith(prefix)
StartsWith(s, prefix) ==
    Len(prefix) <= Len(s) /\ SubSeq(s, 1, Len(prefix)) = prefix

\* settings.excludedFolders.split('\n').filter(Boolean)
ExcludedFolderList(text) == SelectSeq(Split(text, "\n"), LAMBDA folder : folder # <<>>)

\* IsExcluded without the check of lines 514-517 (as in the earlier revisions)
IsExcludedNever(file, excludedFolders) == FALSE

\* activeFile && excludedFolders.some(folder => activeFile.path.startsWith(folder))
IsExcluded(file, excludedFolders) ==
    /\ file # Null
    /\ \E i \in DOMAIN ExcludedFolderList(excludedFolders) :
          StartsWith(file.path, ExcludedFolderList(excludedFolders)[i])

\* FileChanged with the change of file going unnoticed
FileChangedNever(file, current) == FALSE

\* activeFile && activeFile.path !== this.currentFile
FileChanged(file, current) == file # Null /\ file.path # current

\* The word lines of the ledger text built by updateDailyMdFile: one
\* "<word>: <count>" line for every own entry whose value is a number > 0,
\* kept here as word |-> count (the fixed header lines are left out).
LedgerContent(wf) ==
    [w \in {x \in DOMAIN wf : IsNum(wf[x]) /\ wf[x].num > 0} |-> wf[w].num]

\* new Date().toISOString().slice(0, 10) at clock tick t: the UTC date
ISODate(t) == "1970-01-0" \o NatToString(1 + (t \div TicksPerDay))

\* `${folderPath}/WordScraper-${today}.md`, kept as its two variable parts
LedgerFileName(folderPath, today) == [folder |-> folderPath, date |-> today]

\* What saveData writes and a later loadData returns: the JSON round trip of
\* a frequency object (NaN becomes null, undefined and functions are dropped)
JsonFrequency(wf) ==
    [w \in {x \in DOMAIN wf : wf[x] # Undefined /\ ~IsFn(wf[x])} |->
        IF wf[w] = NaN THEN Null ELSE wf[w]]

\* ... and of a settings or state object
Json(obj) ==
    [k \in DOMAIN obj |-> IF k = "wordFrequency" THEN JsonFrequency(obj[k]) ELSE obj[k]]

DEFAULT_SETTINGS == [lastUpdated |-> <<>>, folderPath |-> <<"/">>, excludedFolders |-> <<>>]

\* The object onload falls back to when nothing was saved
FreshState(today) ==
    [wordFrequency |-> EmptyObj, lastKnownDate |-> Str(today),
     currentFile |-> <<>>, lastContent |-> <<>>]

(***************************************************************************)
(* Inputs.                                                                 *)
(***************************************************************************)
Lexemes == { <<"C", "a", "t">>,
             <<"c", "o", "n", "s", "t", "r", "u", "c", "t", "o", "r">> }

\* the lexemes of ls, separated by single spaces
RECURSIVE JoinWords(_)
JoinWords(ls) ==
    IF ls = <<>> THEN <<>>
    ELSE IF Len(ls) = 1 THEN ls[1]
    ELSE ls[1] \o <<" ">> \o JoinWords(Tail(ls))

Contents == { JoinWords(ls) : ls \in UNION { [1..n -> Lexemes] : n \in 0..MaxWords } }

File(path) == [path |-> path]
NoteA == File(<<"n", "/", "a">>)
NoteB == File(<<"n", "/", "b">>)
ActiveFiles == {NoteA, NoteB}

ExcludedFoldersChoices == { <<"\n", "n", "/", "b">> }
FolderPathChoices == { <<"w">> }

(***************************************************************************)
(* State.  The host constructs a plugin object whenever it loads the       *)
(* plugin.  The variables named after the fields describe the latest       *)
(* object, object 0; object k > 0 is retired[k], an object the host has    *)
(* replaced: nothing cancels its timers and pending calls, and what onload *)
(* registers after the host's unload stays registered.                     *)
(***************************************************************************)
VARIABLES
    settings,         \* this.settings (Undefined until loadSettings has assigned it)
    state,            \* this.state (Undefined until onload has assigned it)
    wordFrequency,    \* this.wordFrequency, the aggregate
    dailyMdFile,      \* this.dailyMdFile: Null or the ledger file it refers to
    updateScheduled,  \* this.updateScheduled
    fileInitialized,  \* this.fileInitialized
    currentFile,      \* this.currentFile
    lastContent,      \* this.lastContent, the baseline
    onloadPc,         \* the loadData onload awaits: "settings", "state"; else "done"
    registered,       \* 0, or the rank of the object's handlers among the registered ones
    timers,           \* setTimeout callbacks of handleChange not yet run
    rollovers,        \* runs of checkDateAndReset that wait for saveData
    data,             \* the plugin's data file as loadData would return it
    loaded,           \* the host holds the latest object as loaded
    clock,            \* the time, in ticks
    vault,            \* the ledger files of the vault: file |-> content
    calls,            \* vault calls of updateDailyMdFile / openDailyWordFile awaited
    retired,          \* the plugin objects replaced by a reload that can still act
    hostEvents,       \* settings changes, commands, unloads, failed calls and ticks so far
    last              \* what the last step was, where the state does not show it

vars == <<settings, state, wordFrequency, dailyMdFile, updateScheduled,
          fileInitialized, currentFile, lastContent, onloadPc, registered,
          timers, rollovers, data, loaded, clock, vault, calls, retired,
          hostEvents, last>>

tracker == <<fileInitialized, currentFile, lastContent>>
plugin == <<settings, state, wordFrequency, dailyMdFile, updateScheduled, tracker,
            onloadPc, registered, timers, rollovers>>
background == <<data, loaded, clock, vault>>

Today == ISODate(clock)

\* No count outgrows the bounds of the model
WithinBounds(wf) ==
    \A w \in DOMAIN wf :
        /\ IsNum(wf[w]) => wf[w].num <= MaxCount
        /\ IsStr(wf[w]) => Len(wf[w].str) <= Len(FnSource("Object")) + 3 * MaxAppends

\* A plugin object as constructed (the field initialisers), its onload
\* called and waiting for the loadData of loadSettings
NewPlugin ==
    [settings |-> Undefined, state |-> Undefined, wordFrequency |-> EmptyObj,
     dailyMdFile |-> Null, updateScheduled |-> FALSE, fileInitialized |-> FALSE,
     currentFile |-> <<>>, lastContent |-> <<>>, onloadPc |-> "settings",
     registered |-> 0, timers |-> 0, rollovers |-> 0]

\* The plugin objects that can still act
Objects == 0..Len(retired)

\* Every unload takes a host event, so so many objects can have been replaced
ObjectSlots == 0..MaxHostEvents

\* Positions of calls: an object has at most MaxFlushes flushes pending, and
\* every rollover and every command follows a host event
CallSlots == 1..((MaxHostEvents + 1) * (MaxFlushes + 2 * MaxHostEvents + 1))

\* Plugin object k
This(k) ==
    IF k = 0
    THEN [settings |-> settings, state |-> state, wordFrequency |-> wordFrequency,
          dailyMdFile |-> dailyMdFile, updateScheduled |-> updateScheduled,
          fileInitialized |-> fileInitialized, currentFile |-> currentFile,
          lastContent |-> lastContent, onloadPc |-> onloadPc,
          registered |-> registered, timers |-> timers, rollovers |-> rollovers]
    ELSE retired[k]

\* Single fields of plugin object k
RegisteredOf(k) == IF k = 0 THEN registered ELSE retired[k].registered
OnloadPcOf(k) == IF k = 0 THEN onloadPc ELSE retired[k].onloadPc
TimersOf(k) == IF k = 0 THEN timers ELSE retired[k].timers
RolloversOf(k) == IF k = 0 THEN rollovers ELSE retired[k].rollovers

\* Object k has no callback left, no handler registered and no onload running
Idle(o, k, cs) ==
    /\ o.timers = 0
    /\ o.rollovers = 0
    /\ o.registered = 0
    /\ o.onloadPc = "done"
    /\ \A i \in DOMAIN cs : cs[i].inst # k

\* A replaced object that is idle can do nothing any more: the last ones of
\* r that are idle, cs being the pending calls, are forgotten.
RECURSIVE Tidy(_, _)
Tidy(r, cs) ==
    IF r # <<>> /\ Idle(r[Len(r)], Len(r), cs)
    THEN Tidy(SubSeq(r, 1, Len(r) - 1), cs)
    ELSE r

\* A replaced object whose onload has ended and that has no handler
\* registered only runs the callbacks it has left: of such an object the
\* fields that updateDailyMdFile uses are kept, the others are as constructed.
Forgotten(o) ==
    IF o.registered = 0 /\ o.onloadPc = "done" /\ o.settings # Undefined
    THEN [NewPlugin EXCEPT !.settings = [folderPath |-> o.settings.folderPath],
                           !.wordFrequency = o.wordFrequency,
                           !.dailyMdFile = o.dailyMdFile,
                           !.timers = o.timers,
                           !.rollovers = o.rollovers,
                           !.onloadPc = o.onloadPc]
    ELSE o

\* Object k becomes o; cs are the pending calls after the step.
Become(k, o, cs) ==
    IF k = 0
    THEN /\ settings' = o.settings
         /\ state' = o.state
         /\ wordFrequency' = o.wordFrequency
         /\ dailyMdFile' = o.dailyMdFile
         /\ updateScheduled' = o.updateScheduled
         /\ fileInitialized' = o.fileInitialized
         /\ currentFile' = o.currentFile
         /\ lastContent' = o.lastContent
         /\ onloadPc' = o.onloadPc
         /\ registered' = o.registered
         /\ timers' = o.timers
         /\ rollovers' = o.rollovers
         /\ retired' = Tidy(retired, cs)
    ELSE /\ retired' = Tidy([retired EXCEPT ![k] = Forgotten(o)], cs)
         /\ UNCHANGED plugin

\* The first run: the host has constructed the plugin object and called
\* onload; no data file exists yet.
Init ==
    /\ settings = NewPlugin.settings
    /\ state = NewPlugin.state
    /\ wordFrequency = NewPlugin.wordFrequency
    /\ dailyMdFile = NewPlugin.dailyMdFile
    /\ updateScheduled = NewPlugin.updateScheduled
    /\ fileInitialized = NewPlugin.fileInitialized
    /\ currentFile = NewPlugin.currentFile
    /\ lastContent = NewPlugin.lastContent
    /\ onloadPc = NewPlugin.onloadPc
    /\ registered = NewPlugin.registered
    /\ timers = NewPlugin.timers
    /\ rollovers = NewPlugin.rollovers
    /\ data = Null
    /\ loaded = TRUE
    /\ clock = TicksPerDay - 1
    /\ vault = EmptyObj
    /\ calls = <<>>
    /\ retired = <<>>
    /\ hostEvents = 0
    /\ last = "step"

(***************************************************************************)
(* handleChange: one editor-change notification.  fromActive says whether  *)
(* the notifying editor is the editor of the active markdown view, file is *)
(* the active file (Null when there is none) and content the editor's      *)
(* text.  Everything up to the final saveData runs without an await, and   *)
(* the workspace calls the handlers of all objects that have one           *)
(* registered in the same turn, in the order of their registration, so the *)
(* notification is one step; saveData serialises this.state when called    *)
(* and nothing follows it, whether it resolves or rejects.                 *)
(* this.state.wordFrequency is assigned the aggregate object itself; the   *)
(* aggregate is only mutated inside this handler, which assigns it again,  *)
(* so keeping a copy in state is the same.                                 *)
(***************************************************************************)
\* await this.saveData(blob): the data file is replaced by the blob, unless
\* the write fails.  spent is what the step has used of the host events.
SaveData(blob, spent) ==
    \E saved \in BOOLEAN :
        /\ saved \/ hostEvents + spent < MaxHostEvents
        /\ data' = IF saved THEN Json(blob) ELSE data
        /\ hostEvents' = hostEvents + spent + (IF saved THEN 0 ELSE 1)

\* if (!this.updateScheduled)
ShouldSchedule(scheduled) == ~scheduled

\* LastContentAfter with the baseline left as it was
LastContentKept(old, newContent) == old

\* this.lastContent = newContent, in the baseline branch and after a diff
LastContentAfter(old, newContent) == newContent

\* this.state after the three assignments that precede saveData
StateAfterChange(st, wf, path, content) ==
    Put(Put(Put(st, "wordFrequency", wf), "currentFile", path), "lastContent", content)

\* The way handleChange of object o takes: it returns at once for a change
\* outside the active view and for an excluded file, takes a baseline for a
\* new file, and computes the delta otherwise.
Branch(o, fromActive, file, content) ==
    IF ~fromActive THEN "ignored"
    ELSE IF IsExcluded(file, o.settings.excludedFolders) THEN "excluded"
    ELSE IF FileChanged(file, o.currentFile) \/ ~o.fileInitialized THEN "baseline"
    ELSE "diff"

\* Field f of object o after its handleChange has taken the way branch; wf
\* is the aggregate after the loop over the words of both contents, which
\* only the fields wordFrequency and state of the diff take up.
Handled(o, branch, wf, file, content, f) ==
    IF branch \in {"ignored", "excluded"} THEN o[f]
    ELSE IF f = "currentFile"
    THEN (IF FileChanged(file, o.currentFile) THEN file.path ELSE o.currentFile)
    ELSE IF f = "fileInitialized" THEN TRUE
    ELSE IF f = "lastContent" THEN LastContentAfter(o.lastContent, content)
    ELSE IF branch = "baseline" THEN o[f]
    ELSE IF f = "wordFrequency" THEN wf
    ELSE IF f = "updateScheduled" THEN TRUE
    ELSE IF f = "timers"
    THEN (IF ShouldSchedule(o.updateScheduled) THEN o.timers + 1 ELSE o.timers)
    ELSE IF f = "state"
    THEN StateAfterChange(o.state, wf, o.currentFile,
                          LastContentAfter(o.lastContent, content))
    ELSE o[f]

\* Object o after the notification: its handler runs when it is registered
Notified(o, fromActive, file, content) ==
    IF o.registered > 0
    THEN LET branch == Branch(o, fromActive, file, content)
             wf == UpdateGlobalFrequency(o.wordFrequency, o.lastContent, content)
         IN  [f \in DOMAIN o |-> Handled(o, branch, wf, file, content, f)]
    ELSE o

\* The notification stays within the bounds of the model for object o,
\* which becomes h
ChangeWithinBounds(o, h) ==
    /\ WithinBounds(h.wordFrequency)
    /\ h.timers <= MaxFlushes

\* The objects whose handleChange reaches saveData
Savers(fromActive, file, content) ==
    {k \in Objects : /\ RegisteredOf(k) > 0
                     /\ Branch(This(k), fromActive, file, content) = "diff"}

\* The saveData calls of the handlers: each may fail; of those that do not,
\* the one of the handler registered last is the last to replace the file.
SaveStates(fromActive, file, content) ==
    \E savers \in {Savers(fromActive, file, content)} :
        \E failed \in SUBSET savers :
            LET saved == savers \ failed
                final == CHOOSE k \in saved :
                             \A j \in saved : RegisteredOf(j) <= RegisteredOf(k)
            IN  /\ hostEvents + Cardinality(failed) <= MaxHostEvents
                /\ hostEvents' = hostEvents + Cardinality(failed)
                /\ data' = IF saved = {} THEN data
                           ELSE IF final = 0 THEN Json(state')
                           ELSE Json(retired'[final].state)

HandleChange(fromActive, file, content) ==
    /\ \E k \in Objects : RegisteredOf(k) > 0
    /\ UNCHANGED <<settings, dailyMdFile, onloadPc, registered, rollovers,
                   calls, loaded, clock, vault>>
    /\ IF registered > 0
       THEN \E o \in {This(0)} :
            \E branch \in {Branch(o, fromActive, file, content)} :
                /\ lastContent' = Handled(o, branch, wordFrequency, file, content, "lastContent")
                /\ fileInitialized' =
                       Handled(o, branch, wordFrequency, file, content, "fileInitialized")
                /\ currentFile' = Handled(o, branch, wordFrequency, file, content, "currentFile")
                /\ updateScheduled' =
                       Handled(o, branch, wordFrequency, file, content, "updateScheduled")
                /\ timers' = Handled(o, branch, wordFrequency, file, content, "timers")
                /\ timers' <= MaxFlushes
                /\ last' = IF branch = "excluded" THEN "excluded" ELSE "step"
                /\ wordFrequency' =
                       Handled(o, branch,
                               UpdateGlobalFrequency(wordFrequency, lastContent, content),
                               file, content, "wordFrequency")
                /\ WithinBounds(wordFrequency')
                /\ state' = Handled(o, branch, wordFrequency', file, content, "state")
       ELSE /\ last' = "step"
            /\ UNCHANGED <<lastContent, fileInitialized, currentFile, updateScheduled,
                           timers, wordFrequency, state>>
    /\ \E handled \in {[k \in DOMAIN retired |->
                            Notified(retired[k], fromActive, file, content)]} :
          /\ \A k \in DOMAIN retired : ChangeWithinBounds(retired[k], handled[k])
          /\ retired' = handled
    /\ SaveStates(fromActive, file, content)

(***************************************************************************)
(* updateDailyMdFile.  It runs up to its first pending vault call in one   *)
(* step; a call record holds where it waits: "create" for vault.create,    *)
(* "modify" for vault.modify with the text it passed.  inst is the object  *)
(* the call belongs to; by is "flush" for the debounce callback and        *)
(* "rollover" for checkDateAndReset.  ok says whether the vault call at    *)
(* hand returns normally.  openDailyWordFile looks the file up and creates *)
(* it the same way; its calls are by "open".                               *)
(***************************************************************************)
\* UpdateDailyMdFileThrows without the try/catch
UpdateDailyMdFileRethrows(failed) == failed

\* Whether updateDailyMdFile rejects when a vault call inside it threw:
\* the try/catch logs the error and returns.
UpdateDailyMdFileThrows(failed) == FALSE

\* The files of the vault after file has been given the content
WriteFile(v, file, content) ==
    [f \in DOMAIN v \cup {file} |-> IF f = file THEN content ELSE v[f]]

\* vault.getAbstractFileByPath(fileName)
GetAbstractFileByPath(v, fileName) == IF fileName \in DOMAIN v THEN fileName ELSE Null

\* this.dailyMdFile after the lookup
LookedUp(d, v, fileName) == IF d = Null THEN GetAbstractFileByPath(v, fileName) ELSE d

\* The vault call updateDailyMdFile of object k waits for once its
\* this.dailyMdFile is d
PendingCall(k, by, d, fileName, wf) ==
    IF d = Null
    THEN [inst |-> k, by |-> by, pc |-> "create", file |-> fileName]
    ELSE [inst |-> k, by |-> by, pc |-> "modify", file |-> d, content |-> LedgerContent(wf)]

RemoveAt(seq, i) == SubSeq(seq, 1, i - 1) \o SubSeq(seq, i + 1, Len(seq))

\* A vault call or a loadData may fail while the run has host events left
Outcome(ok) ==
    /\ ok \/ hostEvents < MaxHostEvents
    /\ hostEvents' = IF ok THEN hostEvents ELSE hostEvents + 1

\* Object o after updateDailyMdFile has returned to its caller: the
\* debounce callback clears updateScheduled, checkDateAndReset is done.
Returned(o, by, failed) ==
    IF by = "flush" /\ ~UpdateDailyMdFileThrows(failed)
    THEN [o EXCEPT !.updateScheduled = FALSE]
    ELSE o

\* The entry of updateDailyMdFile of object k, which is o when it is called
Enter(k, by, o, ok) ==
    LET fileName == LedgerFileName(o.settings.folderPath, Today)
        found == LookedUp(o.dailyMdFile, vault, fileName)
    IN  IF ok
        THEN /\ calls' = Append(calls, PendingCall(k, by, found, fileName, o.wordFrequency))
             /\ Become(k, [o EXCEPT !.dailyMdFile = found], calls')
        ELSE /\ calls' = calls
             /\ Become(k, Returned(o, by, TRUE), calls')

\* A debounce timer set by handleChange of object k fires
TimerFires(k, ok) ==
    /\ k \in Objects
    /\ TimersOf(k) > 0
    /\ Outcome(ok)
    /\ Enter(k, "flush", [This(k) EXCEPT !.timers = @ - 1], ok)
    /\ last' = IF ok \/ k # 0 THEN "step" ELSE "flushFailed"
    /\ UNCHANGED background

\* vault.create settles: it creates the file unless it fails or the file
\* exists by now; then the text is built from the aggregate as it is now.
CreateReturns(i, ok) ==
    /\ i \in DOMAIN calls
    /\ calls[i].pc = "create"
    /\ Outcome(ok)
    /\ LET c == calls[i]
           o == This(c.inst)
           created == ok /\ c.file \notin DOMAIN vault
       IN  /\ IF created
              THEN /\ vault' = WriteFile(vault, c.file, EmptyObj)
                   /\ calls' = IF c.by = "open"
                               THEN RemoveAt(calls, i)
                               ELSE Append(RemoveAt(calls, i),
                                           PendingCall(c.inst, c.by, c.file, c.file,
                                                       o.wordFrequency))
                   /\ Become(c.inst, [o EXCEPT !.dailyMdFile = c.file], calls')
              ELSE /\ vault' = vault
                   /\ calls' = RemoveAt(calls, i)
                   /\ Become(c.inst, Returned(o, c.by, TRUE), calls')
           /\ last' = IF ~created /\ c.by = "flush" /\ c.inst = 0
                      THEN "flushFailed" ELSE "step"
    /\ UNCHANGED <<data, loaded, clock>>

\* vault.modify settles
ModifyReturns(i, ok) ==
    /\ i \in DOMAIN calls
    /\ calls[i].pc = "modify"
    /\ Outcome(ok)
    /\ vault' = IF ok THEN WriteFile(vault, calls[i].file, calls[i].content) ELSE vault
    /\ calls' = RemoveAt(calls, i)
    /\ Become(calls[i].inst, Returned(This(calls[i].inst), calls[i].by, ~ok), calls')
    /\ last' = IF ~ok /\ calls[i].by = "flush" /\ calls[i].inst = 0
               THEN "flushFailed" ELSE "step"
    /\ UNCHANGED <<data, loaded, clock>>

\* openDailyWordFile of object k, run by its ribbon icon and by its command:
\* up to its pending vault.create, or to the end when the file is there.
OpenDailyWordFile(k) ==
    /\ k \in Objects
    /\ RegisteredOf(k) > 0
    /\ hostEvents < MaxHostEvents
    /\ hostEvents' = hostEvents + 1
    /\ LET o == This(k)
           fileName == LedgerFileName(o.settings.folderPath, Today)
           found == LookedUp(o.dailyMdFile, vault, fileName)
       IN  /\ calls' = IF found = Null
                       THEN Append(calls, [inst |-> k, by |-> "open", pc |-> "create",
                                           file |-> fileName])
                       ELSE calls
           /\ Become(k, [o EXCEPT !.dailyMdFile = found], calls')
    /\ last' = "step"
    /\ UNCHANGED background

(***************************************************************************)
(* checkDateAndReset, run by the one-minute interval of a registered       *)
(* object.  The interval keeps firing while an earlier run waits for       *)
(* saveData or for the vault.                                              *)
(***************************************************************************)
\* currentDate !== this.state.lastKnownDate
DateChanged(currentDate, st) == Str(currentDate) # Get(st, "lastKnownDate")

\* this.state after the reset
StateAfterReset(st, currentDate) ==
    Put(Put(st, "wordFrequency", EmptyObj), "lastKnownDate", Str(currentDate))

\* The aggregate after the reset: only this.state.wordFrequency is assigned
WordFrequencyAfterReset(wf) == wf

\* The interval of object k fires: up to the await of saveData.  When
\* saveData rejects, so does checkDateAndReset, and the run ends there.
CheckDateAndReset(k) ==
    /\ k \in Objects
    /\ RegisteredOf(k) > 0
    /\ LET o == This(k)
           reset == StateAfterReset(o.state, Today)
       IN  IF DateChanged(Today, o.state)
           THEN /\ SaveData(reset, 0)
                /\ Become(k, [o EXCEPT !.state = reset,
                                       !.wordFrequency = WordFrequencyAfterReset(@),
                                       \* the run waits for saveData, unless the write failed
                                       !.rollovers = IF hostEvents' = hostEvents
                                                     THEN @ + 1 ELSE @],
                          calls)
           ELSE UNCHANGED <<plugin, retired, data, hostEvents>>
    /\ last' = "step"
    /\ UNCHANGED <<calls, loaded, clock, vault>>

\* saveData settled for a run of checkDateAndReset of object k:
\* this.dailyMdFile = null, then updateDailyMdFile
ResetContinues(k, ok) ==
    /\ k \in Objects
    /\ RolloversOf(k) > 0
    /\ Outcome(ok)
    /\ Enter(k, "rollover", [This(k) EXCEPT !.dailyMdFile = Null, !.rollovers = @ - 1], ok)
    /\ last' = "step"
    /\ UNCHANGED background

(***************************************************************************)
(* The settings tab, the host and the clock.                               *)
(***************************************************************************)
\* onChange of a setting in the settings tab of object k: assign, then
\* saveSettings
SetSetting(k, name, value) ==
    /\ k \in Objects
    /\ RegisteredOf(k) > 0
    /\ hostEvents < MaxHostEvents
    /\ LET changed == Put(This(k).settings, name, value)
       IN  /\ SaveData(changed, 1)
           /\ Become(k, [This(k) EXCEPT !.settings = changed], calls)
    /\ last' = "step"
    /\ UNCHANGED <<calls, loaded, clock, vault>>

\* The host unloads the plugin: onunload, and what the object has registered
\* so far is removed.  The timers, the pending vault calls, the waiting runs
\* of checkDateAndReset and an onload that has not finished stay as they are.
OnUnload ==
    /\ loaded
    /\ hostEvents < MaxHostEvents
    /\ hostEvents' = hostEvents + 1
    /\ wordFrequency' = EmptyObj
    /\ dailyMdFile' = Null
    /\ registered' = 0
    /\ loaded' = FALSE
    /\ last' = "step"
    /\ UNCHANGED <<settings, state, updateScheduled, tracker, onloadPc, timers, rollovers,
                   data, clock, vault, calls, retired>>

\* loadSettings: Object.assign({}, DEFAULT_SETTINGS, await this.loadData())
LoadSettings(d) == Assign(DEFAULT_SETTINGS, IF d = Null THEN EmptyObj ELSE d)

\* this.state = await this.loadData() || { ... }
LoadState(d, today) == IF d = Null THEN FreshState(today) ELSE d

\* The rank of the handlers registered next
NextRank ==
    1 + Cardinality({r \in 1..(MaxHostEvents + 1) :
                        \E k \in Objects : RegisteredOf(k) >= r})

\* The host loads the plugin: a new plugin object is constructed and its
\* onload called, which awaits the loadData of loadSettings.  The object it
\* replaces is kept while it can still act.
OnLoad ==
    /\ ~loaded
    /\ loaded' = TRUE
    /\ retired' = IF Idle(This(0), 0, calls) THEN retired
                  ELSE Append(retired, Forgotten(This(0)))
    /\ calls' = [i \in DOMAIN calls |->
                    IF calls[i].inst = 0
                    THEN [calls[i] EXCEPT !.inst = Len(retired) + 1]
                    ELSE calls[i]]
    /\ settings' = NewPlugin.settings
    /\ state' = NewPlugin.state
    /\ wordFrequency' = NewPlugin.wordFrequency
    /\ dailyMdFile' = NewPlugin.dailyMdFile
    /\ updateScheduled' = NewPlugin.updateScheduled
    /\ fileInitialized' = NewPlugin.fileInitialized
    /\ currentFile' = NewPlugin.currentFile
    /\ lastContent' = NewPlugin.lastContent
    /\ onloadPc' = NewPlugin.onloadPc
    /\ registered' = NewPlugin.registered
    /\ timers' = NewPlugin.timers
    /\ rollovers' = NewPlugin.rollovers
    /\ last' = "step"
    /\ UNCHANGED <<data, clock, vault, hostEvents>>

\* The loadData awaited by loadSettings settles for object k: this.settings
\* is assigned and onload goes on to its own loadData.  When loadData
\* rejects, so does onload, and nothing more of it runs.
LoadSettingsReturns(k, ok) ==
    /\ k \in Objects
    /\ OnloadPcOf(k) = "settings"
    /\ Outcome(ok)
    /\ Become(k, IF ok
                 THEN [This(k) EXCEPT !.settings = LoadSettings(data), !.onloadPc = "state"]
                 ELSE [This(k) EXCEPT !.onloadPc = "done"],
              calls)
    /\ last' = "step"
    /\ UNCHANGED <<calls, data, loaded, clock, vault>>

\* The loadData awaited by onload settles for object k: this.state is
\* assigned, then the interval, the editor-change handler, the ribbon icon,
\* the command and the settings tab are registered.
LoadStateReturns(k, ok) ==
    /\ k \in Objects
    /\ OnloadPcOf(k) = "state"
    /\ ok => Cardinality({j \in Objects : RegisteredOf(j) > 0}) < MaxHandlers
    /\ Outcome(ok)
    /\ Become(k, IF ok
                 THEN [This(k) EXCEPT !.state = LoadState(data, Today),
                                      !.registered = NextRank,
                                      !.onloadPc = "done"]
                 ELSE [This(k) EXCEPT !.onloadPc = "done"],
              calls)
    /\ last' = "step"
    /\ UNCHANGED <<calls, data, loaded, clock, vault>>

\* Time passes
Advance ==
    /\ hostEvents < MaxHostEvents
    /\ hostEvents' = hostEvents + 1
    /\ clock' = clock + 1
    /\ last' = "step"
    /\ UNCHANGED <<plugin, data, loaded, vault, calls, retired>>

Next ==
    \/ \E file \in ActiveFiles, content \in Contents : HandleChange(TRUE, file, content)
    \/ HandleChange(FALSE, NoteA, <<>>)
    \/ \E k \in ObjectSlots, ok \in BOOLEAN : TimerFires(k, ok)
    \/ \E i \in CallSlots, ok \in BOOLEAN : CreateReturns(i, ok)
    \/ \E i \in CallSlots, ok \in BOOLEAN : ModifyReturns(i, ok)
    \/ \E k \in ObjectSlots : CheckDateAndReset(k)
    \/ \E k \in ObjectSlots, ok \in BOOLEAN : ResetContinues(k, ok)
    \/ \E k \in ObjectSlots, value \in ExcludedFoldersChoices :
          SetSetting(k, "excludedFolders", value)
    \/ \E k \in ObjectSlots, value \in FolderPathChoices : SetSetting(k, "folderPath", value)
    \/ \E k \in ObjectSlots : OpenDailyWordFile(k)
    \/ OnUnload
    \/ OnLoad
    \/ \E k \in ObjectSlots, ok \in BOOLEAN : LoadSettingsReturns(k, ok)
    \/ \E k \in ObjectSlots, ok \in BOOLEAN : LoadStateReturns(k, ok)
    \/ Advance

Spec == Init /\ [][Next]_vars

(***************************************************************************)
(* Properties.                                                             *)
(***************************************************************************)
\* The notification is one handleChange computes a delta for
Diffable(file) ==
    /\ registered > 0
    /\ ~IsExcluded(file, settings.excludedFolders)
    /\ fileInitialized
    /\ file.path = currentFile

\* The number of occurrences of every word of a text
OccurrenceCounts(text) ==
    LET words == MatchWords(text)
    IN  [w \in {words[i] : i \in DOMAIN words} |->
            Num(Cardinality({i \in DOMAIN words : words[i] = w}))]

\* C1: a notification handled in the TRACKING state, with the aggregate equal
\* to the per-word occurrence counts of the baseline, leaves the aggregate
\* equal to the per-word occurrence counts of the new content.
C1_MultisetDelta ==
    [][\A file \in ActiveFiles, content \in Contents :
          (/\ HandleChange(TRUE, file, content)
           /\ Diffable(file)
           /\ wordFrequency = OccurrenceCounts(lastContent))
          => wordFrequency' = OccurrenceCounts(content)]_vars

\* C2: every key of the aggregate maps to an integer >= 1.
C2_NonNegative ==
    \A w \in DOMAIN wordFrequency :
        IsNum(wordFrequency[w]) /\ wordFrequency[w].num >= 1

\* C3: the first notification for a document other than the tracked one, or
\* while no baseline is held, leaves the aggregate unchanged, makes the
\* content the baseline and tracks that document.
C3_BaselineSuppression ==
    [][\A file \in ActiveFiles, content \in Contents :
          (/\ registered > 0
           /\ file.path # currentFile \/ ~fileInitialized
           /\ ~IsExcluded(file, settings.excludedFolders)
           /\ HandleChange(TRUE, file, content))
          => /\ wordFrequency' = wordFrequency
             /\ lastContent' = content
             /\ fileInitialized'
             /\ currentFile' = file.path]_vars

\* A baseline was taken for NoteA after it had been diffed in this session
\* and another document tracked in between, with a non-empty aggregate: the
\* baseline differs from the content of the last diff, which was NoteA's.
C3_Witness ==
    /\ loaded /\ fileInitialized
    /\ currentFile = NoteA.path
    /\ "currentFile" \in DOMAIN state /\ state.currentFile = NoteA.path
    /\ lastContent # state.lastContent
    /\ wordFrequency # EmptyObj

\* C4: when checkDateAndReset detects a date change, the aggregate that later
\* notifications add to and later flushes write (the ledger text is built
\* from it) is empty.
C4_RolloverIsolation ==
    [][(DateChanged(Today, state) /\ CheckDateAndReset(0))
          => wordFrequency' = EmptyObj]_vars

\* C5: in the TRACKING state a notification for the tracked document whose
\* content is the baseline leaves the aggregate unchanged.
C5_IdempotentRebaseline ==
    [][\A file \in ActiveFiles, content \in Contents :
          (/\ Diffable(file)
           /\ content = lastContent
           /\ HandleChange(TRUE, file, content))
          => wordFrequency' = wordFrequency]_vars

\* Debounce callbacks of plugin object k that are scheduled or running
FlushesOutstandingOf(k) ==
    TimersOf(k) + Cardinality({i \in DOMAIN calls :
                                 calls[i].by = "flush" /\ calls[i].inst = k})

\* Debounce callbacks that are scheduled or running, whatever the object
FlushesOutstanding ==
    Cardinality({i \in DOMAIN calls : calls[i].by = "flush"})
    + Cardinality({kn \in Objects \X (1..MaxFlushes) : kn[2] <= TimersOf(kn[1])})

\* C6: at most one debounced flush is scheduled or running, and a
\* notification that arrives while updateScheduled is true schedules nothing.
C6_SingleSlotDebounce ==
    /\ [](FlushesOutstanding <= 1)
    /\ [][\A file \in ActiveFiles, content \in Contents :
             (updateScheduled /\ HandleChange(TRUE, file, content))
             => timers' = timers /\ calls' = calls]_vars

\* The word lines of the ledger file the plugin holds
LedgerOnDisk == IF dailyMdFile = Null THEN EmptyObj ELSE vault[dailyMdFile]

\* C7: once nothing is scheduled or running any more, in a run without a
\* failed vault call (and without reload, settings change or clock tick), the
\* ledger holds the counts of the aggregate: no change stays unflushed.
C7_LedgerCatchesUp ==
    (loaded /\ hostEvents = 0 /\ timers = 0 /\ calls = <<>> /\ rollovers = 0)
    => LedgerOnDisk = LedgerContent(wordFrequency)

\* A vault call of the debounce callback fails in this step
FlushFails ==
    \/ TimerFires(0, FALSE)
    \/ \E i \in DOMAIN calls :
          /\ calls[i].by = "flush" /\ calls[i].inst = 0
          /\ \/ CreateReturns(i, FALSE)
             \/ ModifyReturns(i, FALSE)
             \/ calls[i].pc = "create" /\ calls[i].file \in DOMAIN vault
                /\ CreateReturns(i, TRUE)

\* C8: a failed vault call inside the flush of the plugin object leaves the
\* aggregate unchanged and ends the callback with updateScheduled false; with
\* updateScheduled false an aggregate-changing notification schedules a flush.
C8_FlushFailureRecoverable ==
    /\ [][FlushFails => /\ wordFrequency' = wordFrequency
                        /\ ~updateScheduled'
                        /\ FlushesOutstandingOf(0)' = 0]_vars
    /\ [][\A file \in ActiveFiles, content \in Contents :
             (~updateScheduled /\ Diffable(file) /\ HandleChange(TRUE, file, content))
             => updateScheduled' /\ timers' = timers + 1]_vars

\* A flush has just failed; the aggregate is kept though the ledger lacks it.
C8_Witness ==
    /\ last = "flushFailed"
    /\ ~updateScheduled
    /\ LedgerContent(wordFrequency) # EmptyObj
    /\ LedgerOnDisk # LedgerContent(wordFrequency)

\* text[i..j] is a whole line of text
IsLine(text, i, j) ==
    /\ i = 1 \/ text[i - 1] = "\n"
    /\ j = Len(text) \/ text[j + 1] = "\n"
    /\ \A k \in i..j : text[k] # "\n"

\* The path starts with a non-empty line of the excludedFolders setting
InExcludedFolder(path, text) ==
    \E i \in 1..Len(text), j \in 1..Len(text) :
        /\ i <= j
        /\ IsLine(text, i, j)
        /\ j - i + 1 <= Len(path)
        /\ \A k \in 1..(j - i + 1) : path[k] = text[i + k - 1]

\* C9: a notification for a file in an excluded folder changes none of the
\* aggregate, the tracker, the pending-flush flag and the persisted state:
\* this.state is left as it is, and the data file is not written unless a
\* replaced object still has its own handler registered.
C9_ExcludedIgnored ==
    [][\A file \in ActiveFiles, content \in Contents :
          (/\ registered > 0
           /\ InExcludedFolder(file.path, settings.excludedFolders)
           /\ HandleChange(TRUE, file, content))
          => /\ UNCHANGED <<wordFrequency, currentFile, lastContent, fileInitialized,
                            updateScheduled, timers, state>>
             /\ data' = data \/ \E k \in DOMAIN retired : retired[k].registered > 0]_vars

\* A notification for the excluded NoteB was just ignored while NoteA is
\* tracked.
C9_Witness ==
    /\ last = "excluded"
    /\ IsExcluded(NoteB, settings.excludedFolders)
    /\ fileInitialized /\ currentFile = NoteA.path

\* C10: once the onload of a plugin loaded again has read the state saved on
\* the same date, the aggregate in use is the one that was last persisted.
C10_ReloadConsistency ==
    [][(/\ data # Null
        /\ "wordFrequency" \in DOMAIN data
        /\ Get(data, "lastKnownDate") = Str(Today)
        /\ LoadStateReturns(0, TRUE))
          => wordFrequency' = data.wordFrequency]_vars

\* C11: in the TRACKING state a notification for the tracked document whose
\* content is empty leaves the aggregate unchanged and leaves the tracker
\* uninitialized.
C11_EmptyContentRule ==
    [][\A file \in ActiveFiles :
          (Diffable(file) /\ HandleChange(TRUE, file, <<>>))
          => wordFrequency' = wordFrequency /\ ~fileInitialized']_vars

\* C12: a rollover performed by checkDateAndReset leaves the tracker
\* uninitialized, so that the next notification only takes a baseline.
C12_RolloverRearmsTracker ==
    [][(DateChanged(Today, state) /\ CheckDateAndReset(0)) => ~fileInitialized']_vars

\* C13: no two vault calls of updateDailyMdFile / openDailyWordFile are
\* awaited at the same time for the same ledger path.
C13_LedgerOpsSerialized ==
    \A i, j \in DOMAIN calls : i # j => calls[i].file # calls[j].file

\* C14: with baseline A and aggregate G, a notification carrying B followed by
\* one carrying A again leaves the aggregate equal to G.  The first
\* notification is the step taken; the second is handled by the same update
\* of the aggregate, from the new baseline B back to A.
C14_UndoRoundTrip ==
    [][\A file \in ActiveFiles, content \in Contents :
          (Diffable(file) /\ HandleChange(TRUE, file, content))
          => UpdateGlobalFrequency(wordFrequency', content, lastContent) = wordFrequency]_vars

\* The lowercase letter of an uppercase one (other characters are kept)
LowerLetters == <<"a", "b", "c", "d", "e", "f", "g", "h", "i", "j", "k", "l", "m",
                  "n", "o", "p", "q", "r", "s", "t", "u", "v", "w", "x", "y", "z">>
UpperLetters == <<"A", "B", "C", "D", "E", "F", "G", "H", "I", "J", "K", "L", "M",
                  "N", "O", "P", "Q", "R", "S", "T", "U", "V", "W", "X", "Y", "Z">>
CaseFoldChar(c) ==
    IF c \in UpperCase THEN LowerLetters[CHOOSE i \in DOMAIN UpperLetters : UpperLetters[i] = c]
    ELSE c

\* A text with every letter in lowercase
CaseFold(text) == [i \in DOMAIN text |-> CaseFoldChar(text[i])]

\* The key under which handleChange counts a lexeme
KeyOf(lexeme) == MatchWords(lexeme)[1]

\* C15: every key of the aggregate is a lowercase word.
C15_CaseNormalization ==
    \A l \in Lexemes : KeyOf(l) \in DOMAIN wordFrequency => CaseFold(l) = l

\* The calendar date on the user's wall clock at tick t, for a user whose
\* time zone is behind UTC by all but one tick of a day
LocalDate(t) == ISODate(t - (TicksPerDay - 1))

\* C17: the date checkDateAndReset compares and records at a rollover is the
\* user's local calendar date.
C17_LocalDateRollover ==
    [][(DateChanged(Today, state) /\ CheckDateAndReset(0))
          => Get(state', "lastKnownDate") = Str(LocalDate(clock))]_vars

\* C18: after every notification from the active editor for a file that is
\* not excluded, the baseline is the content of that notification and the
\* tracker is initialized.
C18_BaselineFollowsContent ==
    [][\A file \in ActiveFiles, content \in Contents :
          (/\ registered > 0
           /\ ~IsExcluded(file, settings.excludedFolders)
           /\ HandleChange(TRUE, file, content))
          => lastContent' = content /\ fileInitialized']_vars

\* A diff has replaced a non-empty baseline by another content, which the
\* aggregate and the saved state reflect.
C18_Witness ==
    /\ loaded /\ fileInitialized /\ updateScheduled
    /\ lastContent # <<>>
    /\ wordFrequency = OccurrenceCounts(lastContent)
    /\ "lastContent" \in DOMAIN state /\ state.lastContent = lastContent
    /\ data = Json(state)

\* C19: when updateDailyMdFile starts and goes on to write, the file it
\* writes is the one named for the current date under the configured folder.
C19_LedgerTargetMatchesDate ==
    [][(TimerFires(0, TRUE) \/ ResetContinues(0, TRUE))
          => \A i \in DOMAIN calls' :
                (i > Len(calls) /\ calls'[i].pc = "modify")
                => calls'[i].file = LedgerFileName(settings.folderPath, Today)]_vars

\* The properties of the saved state
StateKeys == {"wordFrequency", "lastKnownDate", "currentFile", "lastContent"}

\* C20: a save of the state keeps the saved settings readable by
\* loadSettings, and a save of the settings keeps the saved state readable.
C20_StateSaveKeepsSettings ==
    /\ [][(registered > 0 /\ data' # data /\ settings' = settings)
             => /\ LoadSettings(data').folderPath = settings.folderPath
                /\ LoadSettings(data').excludedFolders = settings.excludedFolders]_vars
    /\ [][(registered > 0 /\ data # Null /\ settings' # settings)
             => \A k \in StateKeys \cap DOMAIN data :
                   k \in DOMAIN data' /\ data'[k] = data[k]]_vars

====
